---- MODULE Spec2Model ----
(***************************************************************************)
(* License discovery of grayskull (grayskull/license/discovery.py).        *)
(*                                                                         *)
(* Python values are modelled as follows.  A str is a sequence of          *)
(* one-character strings; None is the value PyNone, which no str equals.   *)
(* A ShortLicense or an outcome of a call is a record with a "kind" field  *)
(* ("none", "license" or "raised").  A URL is a sequence of tokens         *)
(* (scheme, host, "/", path segment, ".git").                              *)
(***************************************************************************)
EXTENDS Integers, Sequences, FiniteSets, TLC

VARIABLES
    ml,       \* the last call of match_license / get_short_license_id
    glt,      \* the last call of get_license_type
    cache,    \* the lru_cache of search_license_api_github, least recent first
    gets,     \* gets[<<url, version>>]: the GET requests issued for the pair
    recency,  \* history: the keys of the calls that returned, least recent first
    api,      \* the last direct call of search_license_api_github
    slf,      \* the last call of search_license_file
    repo      \* the last direct call of search_license_repo

vars == <<ml, glt, cache, gets, recency, api, slf, repo>>

----------------------------------------------------------------------------
(* Python values *)

PyNone == <<"<None>">>

\* bool(s) of an Optional[str]
Truthy(s) == s # PyNone /\ s # <<>>

\* re.IGNORECASE
RE_IGNORECASE == 2

S_License == <<"L", "i", "c", "e", "n", "s", "e">>
S_license == <<"l", "i", "c", "e", "n", "s", "e">>
S_LICENSE == <<"L", "I", "C", "E", "N", "S", "E">>
S_MIT == <<"M", "I", "T">>
S_AL2 == <<"A", "L", "2">>
S_Apache == <<"A", "p", "a", "c", "h", "e">>
S_Apache20 == <<"A", "p", "a", "c", "h", "e", "-", "2", ".", "0">>
S_PD == <<"P", "D">>
S_Expat == <<"E", "x", "p", "a", "t">>
S_Other == <<"O", "t", "h", "e", "r">>
S_SPDX == <<"S", "P", "D", "X">>
S_spdx == <<"s", "p", "d", "x">>
S_DEP5 == <<"D", "E", "P", "5">>
S_sp == <<" ">>

UpperChars == <<"A", "C", "D", "E", "G", "H", "I", "L", "M", "N", "O", "P", "R", "S", "T", "X", "Y">>
LowerChars == <<"a", "c", "d", "e", "g", "h", "i", "l", "m", "n", "o", "p", "r", "s", "t", "x", "y">>

\* str.lower() of one character, and of a str
LowerOf ==
    [c \in {UpperChars[i] : i \in 1..Len(UpperChars)} |->
        LowerChars[CHOOSE i \in 1..Len(UpperChars) : UpperChars[i] = c]]

LowerChar(c) == IF c \in DOMAIN LowerOf THEN LowerOf[c] ELSE c

Lower(s) == [i \in 1..Len(s) |-> LowerChar(s[i])]

\* \s of the re module
IsSpace(c) == c \in {" ", "\t", "\n"}

\* \w of the re module
WordChars ==
    {UpperChars[i] : i \in 1..Len(UpperChars)} \cup {LowerChars[i] : i \in 1..Len(LowerChars)}
    \cup {"0", "1", "2", "5", "_", "b", "f", "k", "u", "v", "w"}

IsWordChar(c) == c \in WordChars

RECURSIVE SkipSpace(_, _)
\* the index of the first non-space character of s at or after i
SkipSpace(s, i) ==
    IF i <= Len(s) /\ IsSpace(s[i]) THEN SkipSpace(s, i + 1) ELSE i

RECURSIVE SkipSpaceBack(_, _)
SkipSpaceBack(s, i) ==
    IF i >= 1 /\ IsSpace(s[i]) THEN SkipSpaceBack(s, i - 1) ELSE i

\* str.strip()
Strip(s) ==
    LET a == SkipSpace(s, 1)
        b == SkipSpaceBack(s, Len(s))
    IN  IF a > b THEN <<>> ELSE SubSeq(s, a, b)

\* does the literal w occur in s at index i (under flags)
LiteralAt(s, i, w, flags) ==
    /\ i + Len(w) - 1 <= Len(s)
    /\ IF (flags \div RE_IGNORECASE) % 2 = 1
       THEN \A k \in 1..Len(w) : LowerChar(s[i + k - 1]) = LowerChar(w[k])
       ELSE \A k \in 1..Len(w) : s[i + k - 1] = w[k]

RECURSIVE ReSubFrom(_, _, _, _, _)
\* re.sub(r"\s*License\s*", "", s, count, flags) from index i on, n
\* replacements made so far; count = 0 replaces every match
ReSubFrom(s, i, count, flags, n) ==
    IF i > Len(s) THEN <<>>
    ELSE IF count # 0 /\ n >= count THEN SubSeq(s, i, Len(s))
    ELSE LET j == SkipSpace(s, i)
         IN  IF LiteralAt(s, j, S_License, flags)
             THEN ReSubFrom(s, SkipSpace(s, j + Len(S_License)), count, flags, n + 1)
             ELSE <<s[i]>> \o ReSubFrom(s, i + 1, count, flags, n)

ReSubLicense(s, count, flags) == ReSubFrom(s, 1, count, flags, 0)

----------------------------------------------------------------------------
(* The Name Resolver: match_license, get_short_license_id *)

\* os_api.all(): the records of the opensource API
OsLicenses == <<
    [id |-> S_MIT, name |-> S_MIT \o S_sp \o S_License, other_names |-> <<S_Expat>>,
     identifiers |-> <<[scheme |-> S_SPDX, identifier |-> S_MIT]>>],
    [id |-> S_AL2, name |-> S_Apache, other_names |-> <<>>,
     identifiers |-> <<[scheme |-> S_DEP5, identifier |-> S_Apache],
                       [scheme |-> S_spdx, identifier |-> S_Apache20]>>],
    [id |-> S_PD, name |-> <<>>, other_names |-> <<S_Expat>>,
     identifiers |-> <<>>] >>

\* os_api.get(name) succeeds (raises no ValueError)
OsApiHas(name) == \E i \in 1..Len(OsLicenses) : OsLicenses[i].id = name

OsApiGet(name) ==
    OsLicenses[CHOOSE i \in 1..Len(OsLicenses) : OsLicenses[i].id = name]

_get_all_names_from_api(api_license) ==
    (IF api_license.name # <<>> THEN <<api_license.name>> ELSE <<>>)
    \o (IF api_license.id # <<>> THEN <<api_license.id>> ELSE <<>>)
    \o api_license.other_names

RECURSIVE AllChoicesFrom(_)
AllChoicesFrom(i) ==
    IF i > Len(OsLicenses) THEN <<>>
    ELSE _get_all_names_from_api(OsLicenses[i]) \o AllChoicesFrom(i + 1)

_get_all_license_choice == AllChoicesFrom(1)

InSeq(x, s) == \E i \in 1..Len(s) : s[i] = x

_get_license(name) ==
    IF OsApiHas(name) THEN OsApiGet(name)
    ELSE OsLicenses[CHOOSE i \in 1..Len(OsLicenses) :
            /\ InSeq(name, _get_all_names_from_api(OsLicenses[i]))
            /\ \A k \in 1..(i - 1) : ~InSeq(name, _get_all_names_from_api(OsLicenses[k]))]

\* the name match_license looks up: strip(), then the re.sub of line 31,
\* whose fourth positional argument is count
LookupName(name) == ReSubLicense(Strip(name), RE_IGNORECASE, 0)

\* match_license(name); pick is the index of the choice process.extractOne
\* scores best when the exact lookup fails
match_license(name, pick) ==
    IF OsApiHas(LookupName(name)) THEN OsApiGet(LookupName(name))
    ELSE _get_license(_get_all_license_choice[pick])

RECURSIVE FirstSpdx(_, _)
FirstSpdx(ids, i) ==
    IF i > Len(ids) THEN 0
    ELSE IF Lower(ids[i].scheme) = S_spdx THEN i
    ELSE FirstSpdx(ids, i + 1)

get_short_license_id(name, pick) ==
    LET obj_license == match_license(name, pick)
        k == FirstSpdx(obj_license.identifiers, 1)
    IN  IF k # 0 THEN obj_license.identifiers[k].identifier ELSE obj_license.id

----------------------------------------------------------------------------
(* The Text Classifier: get_license_type *)

\* the acceptance threshold of get_license_type
Threshold == 76

\* process.extractOne(content, texts, scorer=token_sort_ratio): the first
\* text of the highest score, as <<text, score>>; score[t] is
\* token_sort_ratio(content, t)
RECURSIVE ExtractOneFrom(_, _, _, _)
ExtractOneFrom(texts, score, i, best) ==
    IF i > Len(texts) THEN <<texts[best], score[texts[best]]>>
    ELSE IF score[texts[i]] > score[texts[best]]
         THEN ExtractOneFrom(texts, score, i + 1, i)
         ELSE ExtractOneFrom(texts, score, i + 1, best)

ExtractOne(texts, score) == ExtractOneFrom(texts, score, 2, 1)

\* list.index(x)
IndexOf(s, x) == CHOOSE i \in 1..Len(s) : s[i] = x /\ \A k \in 1..(i - 1) : s[k] # x

\* a classifier that also keeps the default at a score of exactly Threshold
get_license_typeInclusive(score, default, all_licenses) ==
    LET licenses_text == [i \in 1..Len(all_licenses) |-> all_licenses[i][2]]
        best_match == ExtractOne(licenses_text, score)
    IN  IF Truthy(default) /\ best_match[2] <= Threshold
        THEN default
        ELSE all_licenses[IndexOf(licenses_text, best_match[1])][1]

\* get_license_type(path_license, default) on a file whose content scores
\* score[t] against the text t; all_licenses is get_all_licenses()
get_license_type(score, default, all_licenses) ==
    LET licenses_text == [i \in 1..Len(all_licenses) |-> all_licenses[i][2]]
        best_match == ExtractOne(licenses_text, score)
    IN  IF Truthy(default) /\ best_match[2] < Threshold
        THEN default
        ELSE all_licenses[IndexOf(licenses_text, best_match[1])][1]

----------------------------------------------------------------------------
(* Outcomes of a call *)

ShortLicense(name, path, is_packaged) ==
    [kind |-> "license", name |-> name, path |-> path, is_packaged |-> is_packaged]

NoneRet == [kind |-> "none", name |-> PyNone, path |-> <<>>, is_packaged |-> FALSE]

\* the call raised the exception exc
Raised(exc) == [kind |-> "raised", name |-> <<exc>>, path |-> <<>>, is_packaged |-> FALSE]

----------------------------------------------------------------------------
(* Paths: os.path.join, os.path.relpath, str.replace, str.split, str.join *)

RECURSIVE SplitFrom(_, _, _, _)
\* s.split(c) from index i on, cur being the segment read so far
SplitFrom(s, c, i, cur) ==
    IF i > Len(s) THEN <<cur>>
    ELSE IF s[i] = c THEN <<cur>> \o SplitFrom(s, c, i + 1, <<>>)
    ELSE SplitFrom(s, c, i + 1, Append(cur, s[i]))

SplitOn(s, c) == SplitFrom(s, c, 1, <<>>)

RECURSIVE Join(_, _)
\* c.join(parts)
Join(parts, c) ==
    IF parts = <<>> THEN <<>>
    ELSE IF Len(parts) = 1 THEN parts[1]
    ELSE parts[1] \o <<c>> \o Join(Tail(parts), c)

\* s.replace(a, b) for characters a and b
Replace(s, a, b) == [i \in 1..Len(s) |-> IF s[i] = a THEN b ELSE s[i]]

\* os.path.join(a, b) for a relative b, sep being os.sep
OsJoin(a, b, sep) ==
    IF a = <<>> THEN b
    ELSE IF a[Len(a)] = sep THEN a \o b
    ELSE a \o <<sep>> \o b

RECURSIVE OsJoinAll(_, _, _)
OsJoinAll(a, parts, sep) ==
    IF parts = <<>> THEN a ELSE OsJoinAll(OsJoin(a, Head(parts), sep), Tail(parts), sep)

\* the components of a normalised path
PathParts(p, sep) == SelectSeq(SplitOn(p, sep), LAMBDA x : x # <<>> /\ x # <<".">>)

RECURSIVE CommonPrefix(_, _)
CommonPrefix(a, b) ==
    IF a # <<>> /\ b # <<>> /\ Head(a) = Head(b)
    THEN 1 + CommonPrefix(Tail(a), Tail(b))
    ELSE 0

\* os.path.relpath(path, start), both taken from the same working directory
RelPath(path, start, sep) ==
    LET path_list == PathParts(path, sep)
        start_list == PathParts(start, sep)
        i == CommonPrefix(start_list, path_list)
        rel_list == [k \in 1..(Len(start_list) - i) |-> <<".", ".">>]
                    \o SubSeq(path_list, i + 1, Len(path_list))
    IN  IF rel_list = <<>> THEN <<".">> ELSE Join(rel_list, sep)

----------------------------------------------------------------------------
(* The Local Folder Scanner: search_license_folder *)

S_copyright == <<"c", "o", "p", "y", "r", "i", "g", "h", "t">>
S_copying == <<"c", "o", "p", "y", "i", "n", "g">>
S_copyleft == <<"c", "o", "p", "y", "l", "e", "f", "t">>

\* \b between s[i - 1], a word character, and s[i]
BoundaryAfterWord(s, i) == i > Len(s) \/ ~IsWordChar(s[i])

RECURSIVE SkipS(_, _)
\* [s]* under re.IGNORECASE
SkipS(s, i) == IF i <= Len(s) /\ LowerChar(s[i]) = "s" THEN SkipS(s, i + 1) ELSE i

\* re_search.match(one_file)
ReSearchMatch(one_file) ==
    \/ \E w \in {S_copyright, S_copying, S_copyleft} :
          /\ LiteralAt(one_file, 1, w, RE_IGNORECASE)
          /\ BoundaryAfterWord(one_file, Len(w) + 1)
    \/ /\ LiteralAt(one_file, 1, S_license, RE_IGNORECASE)
       /\ BoundaryAfterWord(one_file, SkipS(one_file, Len(S_license) + 1))

RECURSIVE FirstLicenseFile(_, _, _)
\* the first file of os.walk's order that re_search matches, as <<i, j>>:
\* the j-th file name of the i-th directory; <<0, 0>> when there is none
FirstLicenseFile(walk, i, j) ==
    IF i > Len(walk) THEN <<0, 0>>
    ELSE IF j > Len(walk[i].files) THEN FirstLicenseFile(walk, i + 1, 1)
    ELSE IF ReSearchMatch(walk[i].files[j]) THEN <<i, j>>
    ELSE FirstLicenseFile(walk, i, j + 1)

\* search_license_folder(path, default) over the tree os.walk lists as walk,
\* the matched file scoring score[t] against the text t
search_license_folder(path, default, walk, sep, score, all_licenses) ==
    LET at == FirstLicenseFile(walk, 1, 1)
    IN  IF at = <<0, 0>> THEN NoneRet
        ELSE LET folder_path == OsJoinAll(path, walk[at[1]].dir, sep)
                 lc_path == OsJoin(folder_path, walk[at[1]].files[at[2]], sep)
             IN  ShortLicense(get_license_type(score, default, all_licenses), lc_path, FALSE)

----------------------------------------------------------------------------
(* The Remote Host API Client: search_license_api_github *)

\* maxsize of the lru_cache
CacheMaxSize == 13

\* re.sub(r"github.com", "api.github.com/repos", github_url), token by token
RECURSIVE SubGithub(_)
SubGithub(url) ==
    IF url = <<>> THEN <<>>
    ELSE (IF Head(url) = "github.com" THEN <<"api.github.com", "/", "repos">>
          ELSE <<Head(url)>>) \o SubGithub(Tail(url))

_get_api_github_url(github_url, version) ==
    LET u1 == SubGithub(github_url)
        u2 == IF u1[Len(u1)] # "/" THEN u1 \o <<"/">> ELSE u1
        u3 == u2 \o <<"license">>
    IN  IF Truthy(version) THEN u3 \o <<"?ref=">> \o version ELSE u3

\* the temporary file the content is written to
ApiLicensePath == <<"g", "i", "t", "h", "u", "b", "-", "l", "i", "c", "e", "n", "s", "e", "-", "/">> \o S_LICENSE

\* the body of search_license_api_github on the response resp of the GET;
\* without a URL, line 131 or line 132 raises before any request
ApiGithubBody(github_url, version, default, resp) ==
    IF github_url = PyNone THEN Raised("TypeError")
    ELSE IF github_url = <<>> THEN Raised("IndexError")
    ELSE IF resp.kind = "error" THEN Raised("ConnectionError")
    ELSE IF resp.status # 200 THEN NoneRet
    ELSE IF ~resp.has_content THEN Raised("KeyError")
    ELSE ShortLicense(IF resp.has_spdx THEN resp.spdx_id ELSE default,
                      ApiLicensePath, FALSE)

\* the key lru_cache makes of the arguments
CacheKey(github_url, version, default) == <<github_url, version, default>>

CacheHas(c, key) == \E i \in 1..Len(c) : c[i].key = key

CacheVal(c, key) == c[CHOOSE i \in 1..Len(c) : c[i].key = key].val

CacheWithout(c, key) == SelectSeq(c, LAMBDA e : e.key # key)

\* a hit makes the entry the most recently used
CacheTouch(c, key) ==
    CacheWithout(c, key) \o <<[key |-> key, val |-> CacheVal(c, key)]>>

\* CacheStore with the cache taken as full one entry early
CacheStoreEarly(c, key, val) ==
    (IF Len(c) >= CacheMaxSize - 1 THEN Tail(c) ELSE c) \o <<[key |-> key, val |-> val]>>

\* a miss stores the result, evicting the least recently used entry of a
\* full cache
CacheStore(c, key, val) ==
    (IF Len(c) >= CacheMaxSize THEN Tail(c) ELSE c) \o <<[key |-> key, val |-> val]>>

\* search_license_api_github behind its lru_cache: the outcome, whether a
\* GET was issued, and the cache afterwards
search_license_api_github(c, github_url, version, default, resp) ==
    LET key == CacheKey(github_url, version, default)
        out == ApiGithubBody(github_url, version, default, resp)
    IN  IF CacheHas(c, key)
        THEN [ret |-> CacheVal(c, key), get |-> FALSE, url |-> <<>>,
              cache |-> CacheTouch(c, key)]
        ELSE [ret |-> out, get |-> Truthy(github_url),
              url |-> IF Truthy(github_url)
                      THEN _get_api_github_url(github_url, version) ELSE <<>>,
              cache |-> IF out.kind = "raised" THEN c ELSE CacheStore(c, key, out)]

----------------------------------------------------------------------------
(* The Repository Clone Fallback: search_license_repo *)

\* the directory mkdtemp(prefix="gs-clone-repo-") makes
CloneTmpDir == <<"g", "s", "-", "c", "l", "o", "n", "e", "-", "r", "e", "p", "o", "-">>

_get_git_cmd(git_url, version, dest) ==
    <<"git", "clone">>
    \o (IF Truthy(version) THEN <<"-b", version>> ELSE <<>>)
    \o <<git_url, dest>>

\* re.sub(r"/$", ".git", git_url), then the endswith(".git") test
CloneUrl(git_url) ==
    LET u1 == IF git_url # <<>> /\ git_url[Len(git_url)] = "/"
              THEN SubSeq(git_url, 1, Len(git_url) - 1) \o <<".git">>
              ELSE git_url
    IN  IF u1 # <<>> /\ u1[Len(u1)] = ".git" THEN u1 ELSE u1 \o <<".git">>

\* an except clause that catches only a failed git command
ExceptCalledProcessError(exc) == exc = "CalledProcessError"

\* "except Exception" catches exc
ExceptException(exc) ==
    exc \in {"CalledProcessError", "FileNotFoundError", "PermissionError", "TimeoutExpired"}

\* search_license_repo(git_url, version, default); clone is what check_output
\* comes to: an exception, or the tree of the clone
search_license_repo(git_url, version, default, clone, sep, all_licenses) ==
    LET cmd == _get_git_cmd(CloneUrl(git_url), version, CloneTmpDir)
    IN  IF ~clone.ok
        THEN [ret |-> IF ExceptException(clone.exc) THEN NoneRet ELSE Raised(clone.exc),
              cmd |-> cmd, scanned |-> FALSE]
        ELSE [ret |-> search_license_folder(CloneTmpDir, default, clone.walk, sep,
                                            clone.score, all_licenses),
              cmd |-> cmd, scanned |-> TRUE]

----------------------------------------------------------------------------
(* The Discovery Orchestrator: search_license_file *)

\* lines 83-84 with the metadata passed on as it came
ResolveDefaultRaw(license_name_metadata, pick) == license_name_metadata

\* lines 83-84: the default every stage is given
ResolveDefault(license_name_metadata, pick) ==
    IF Truthy(license_name_metadata)
    THEN get_short_license_id(license_name_metadata, pick)
    ELSE license_name_metadata

\* lines 92-94 with the first segment always dropped
StripRootAlways(path) == Join(Tail(SplitOn(path, "/")), "/")

\* lines 92-94: drop the first segment of a path of several segments
StripRoot(path) ==
    LET splited == SplitOn(path, "/")
    IN  IF Len(splited) > 1 THEN Join(Tail(splited), "/") ELSE path

\* lines 88-90 without the is_packaged assignment
MarkPackagedNot(license_sdist, folder_path, sep) ==
    [license_sdist EXCEPT
        !.path = Replace(RelPath(license_sdist.path, folder_path, sep), "\\", "/")]

\* lines 88-90
MarkPackaged(license_sdist, folder_path, sep) ==
    [license_sdist EXCEPT
        !.is_packaged = TRUE,
        !.path = Replace(RelPath(license_sdist.path, folder_path, sep), "\\", "/")]

\* line 97 with the test left out
UrlGivenAlways(git_url) == TRUE

\* line 97: "if not git_url" does not return
UrlGiven(git_url) == Truthy(git_url)

\* what a stage was given and came to
StageRec(stage, default, ret, get, scanned) ==
    [stage |-> stage, default |-> default, out |-> ret.kind, get |-> get,
     scanned |-> scanned]

\* search_license_file(folder_path, git_url, version, license_name_metadata)
\* with the cache c; env is what the file system, the opensource API, the
\* host API and git come to.  Gives the outcome, the stages run in order and
\* the cache afterwards.
search_license_file(c, folder_path, git_url, version, license_name_metadata, env) ==
    LET default == ResolveDefault(license_name_metadata, env.pick)
        license_sdist == search_license_folder(folder_path, default, env.walk, env.sep,
                                               env.score, env.corpus)
        s1 == StageRec("folder", default, license_sdist, FALSE, TRUE)
    IN  IF license_sdist.kind = "license"
        THEN LET packaged == MarkPackaged(license_sdist, folder_path, env.sep)
             IN  [ret |-> [packaged EXCEPT !.path = StripRoot(packaged.path)],
                  stages |-> <<s1>>, cache |-> c, default |-> default]
        ELSE IF ~UrlGiven(git_url)
        THEN [ret |-> NoneRet, stages |-> <<s1>>, cache |-> c, default |-> default]
        ELSE LET a == search_license_api_github(c, git_url, version, default, env.resp)
                 s2 == StageRec("api", default, a.ret, a.get, FALSE)
             IN  IF a.ret.kind # "none"
                 THEN [ret |-> a.ret, stages |-> <<s1, s2>>, cache |-> a.cache,
                       default |-> default]
                 ELSE LET r == search_license_repo(git_url, version, default, env.clone,
                                                   env.sep, env.corpus)
                          s3 == StageRec("clone", default, r.ret, FALSE, r.scanned)
                      IN  [ret |-> r.ret, stages |-> <<s1, s2, s3>>, cache |-> a.cache,
                           default |-> default]

----------------------------------------------------------------------------
(* Inputs of the Name Resolver *)

MaxNameTokens == 3

NameTokens == {S_License, S_license, S_LICENSE, S_sp, S_MIT}

RECURSIVE NamesOfLen(_)
NamesOfLen(n) ==
    IF n = 0 THEN {<<>>}
    ELSE {t \o r : t \in NameTokens, r \in NamesOfLen(n - 1)}

Names == UNION {NamesOfLen(n) : n \in 0..MaxNameTokens}

Picks == 1..Len(_get_all_license_choice)

InitMl(name, pick) ==
    [called |-> FALSE, name |-> name, pick |-> pick, query |-> <<>>,
     exact |-> FALSE, ret |-> PyNone]

IdleMl == InitMl(<<>>, 1)
IdleGlt ==
    [called |-> FALSE, score |-> <<>>, default |-> PyNone, corpus |-> <<>>, ret |-> PyNone]

----------------------------------------------------------------------------
(* Inputs of the remote stages *)

BaseUrl == <<"https://", "github.com", "/", "org", "/", "repo">>

FillerNames == <<"f1", "f2", "f3", "f4", "f5", "f6", "f7", "f8", "f9", "f10",
                 "f11", "f12", "f13", "f14", "f15", "f16">>

\* the URL of the n-th other repository
FillerUrl(n) == <<"https://", "github.com", "/", "org", "/", FillerNames[n]>>

S_v1 == <<"v", "1">>

Versions == {PyNone, S_v1}

RemoteUrls == {BaseUrl, BaseUrl \o <<"/">>, BaseUrl \o <<".git">>}

Pairs ==
    {<<u, v>> : u \in RemoteUrls \cup {PyNone, <<>>}
                        \cup {FillerUrl(n) : n \in 1..Len(FillerNames)},
                v \in Versions}

\* what the GET can come to: a transport error, a status other than 200, and
\* a 200 whose JSON has no "content", no "spdx_id", or both
RespError == [kind |-> "error", status |-> 0, has_content |-> FALSE, has_spdx |-> FALSE, spdx_id |-> <<>>]
Resp404 == [kind |-> "http", status |-> 404, has_content |-> FALSE, has_spdx |-> FALSE, spdx_id |-> <<>>]
RespMalformed == [kind |-> "http", status |-> 200, has_content |-> FALSE, has_spdx |-> FALSE, spdx_id |-> <<>>]
RespNoSpdx == [kind |-> "http", status |-> 200, has_content |-> TRUE, has_spdx |-> FALSE, spdx_id |-> <<>>]
RespSpdx == [kind |-> "http", status |-> 200, has_content |-> TRUE, has_spdx |-> TRUE, spdx_id |-> S_Apache20]

Resps == {RespError, Resp404, RespMalformed, RespNoSpdx, RespSpdx}

IdleApi ==
    [called |-> FALSE, key |-> <<>>, resp |-> Resp404, get |-> FALSE, ret |-> NoneRet]

IdleRepo ==
    [called |-> FALSE, git_url |-> BaseUrl, version |-> PyNone, default |-> PyNone,
     clone |-> [ok |-> FALSE, exc |-> "CalledProcessError", walk |-> <<>>, score |-> <<>>],
     sep |-> "/", ret |-> NoneRet, cmd |-> <<>>, scanned |-> FALSE]

\* no remote call was made yet
IdleRemote ==
    /\ cache = <<>>
    /\ gets = [p \in Pairs |-> 0]
    /\ recency = <<>>
    /\ api = IdleApi

----------------------------------------------------------------------------
(* Inputs of the Text Classifier *)

Texts == {"t1", "t2", "t3"}

\* get_all_licenses(): ordered (id, text) pairs; two ids may share a text
Corpora == {
    << <<S_MIT, "t1">>, <<S_Apache20, "t2">>, <<S_Expat, "t1">> >>,
    << <<S_Apache20, "t2">>, <<S_PD, "t3">>, <<S_MIT, "t1">> >> }

ScoreVals == {0, Threshold - 1, Threshold, 100}

Scores == [Texts -> ScoreVals]

Defaults == {PyNone, <<>>, S_Other, S_MIT}

----------------------------------------------------------------------------
(* Inputs of the Local Folder Scanner and of the Orchestrator *)

N_setup == <<"s", "e", "t", "u", "p", ".", "p", "y">>
N_LICENSE_txt == S_LICENSE \o <<".", "t", "x", "t">>
N_Licenses == S_License \o <<"s">>
N_licensed == S_license \o <<"d">>
N_COPYING == <<"C", "O", "P", "Y", "I", "N", "G">>
N_LICENSE_bs == S_LICENSE \o <<"\\", "x">>
D_pkg == <<"p", "k", "g">>
D_docs == <<"d", "o", "c", "s">>
D_bs == <<"a", "\\", "b">>

\* trees, as os.walk lists them: the directories top-down, each with its path
\* below the top and its file names
W_empty == << [dir |-> <<>>, files |-> <<>>] >>
W_nolic == << [dir |-> <<>>, files |-> <<N_setup, N_licensed>>] >>
W_top == << [dir |-> <<>>, files |-> <<N_setup, N_LICENSE_txt>>] >>
W_sdist == << [dir |-> <<>>, files |-> <<>>],
              [dir |-> <<D_pkg>>, files |-> <<N_setup, N_Licenses, N_COPYING>>] >>
W_deep == << [dir |-> <<>>, files |-> <<N_licensed>>],
             [dir |-> <<D_pkg>>, files |-> <<N_setup>>],
             [dir |-> <<D_pkg, D_docs>>, files |-> <<N_COPYING, S_LICENSE>>] >>
\* names with a backslash, which only a POSIX file system has
W_bsfile == << [dir |-> <<>>, files |-> <<N_LICENSE_bs>>] >>
W_bsdir == << [dir |-> <<>>, files |-> <<>>],
              [dir |-> <<D_bs>>, files |-> <<S_LICENSE>>] >>

Seps == {"/", "\\"}

Walks(sep) ==
    {W_empty, W_nolic, W_top, W_sdist, W_deep}
    \cup (IF sep = "/" THEN {W_bsfile, W_bsdir} ELSE {})

Roots(sep) == {<<"r">>, <<"r", sep>>, <<sep, "t", "m", "p", sep, "r">>}

S_MIT_License == <<" ">> \o S_MIT \o <<" ">> \o S_License

Metas == {PyNone, <<>>, S_MIT_License, S_Expat}

\* the pick matters only when match_license gets to process.extractOne
PicksFor(meta) ==
    IF Truthy(meta) /\ ~OsApiHas(LookupName(meta)) THEN Picks ELSE {1}

AllLicenses == << <<S_Apache20, "t2">>, <<S_MIT, "t1">>, <<S_Expat, "t1">> >>

ScoreExact == [t \in Texts |-> IF t = "t2" THEN 100 ELSE 0]
ScoreLow == [t \in Texts |-> Threshold - 1]

ScanScores == {ScoreExact, ScoreLow}

CloneFailed(exc) == [ok |-> FALSE, exc |-> exc, walk |-> <<>>, score |-> ScoreLow]
CloneOk(walk, score) == [ok |-> TRUE, exc |-> "-", walk |-> walk, score |-> score]

Clones ==
    {CloneFailed("CalledProcessError"), CloneFailed("FileNotFoundError"),
     CloneOk(W_empty, ScoreLow), CloneOk(W_sdist, ScoreExact), CloneOk(W_sdist, ScoreLow)}

NoStages == <<>>

SlfInputs(sep, folder_path, walk, git_url, version, meta, pick, score, resp, clone) ==
    [called |-> FALSE, sep |-> sep, folder_path |-> folder_path, walk |-> walk,
     git_url |-> git_url, version |-> version, meta |-> meta, pick |-> pick,
     score |-> score, corpus |-> AllLicenses, resp |-> resp, clone |-> clone,
     stages |-> NoStages, ret |-> NoneRet]

IdleSlf ==
    SlfInputs("/", <<"r">>, W_empty, PyNone, PyNone, PyNone, 1, ScoreLow, Resp404,
              CloneFailed("CalledProcessError"))

\* search_license_file on the inputs in, with the cache as it is
SearchLicenseFile(in) ==
    \E r \in {search_license_file(cache, in.folder_path, in.git_url, in.version, in.meta,
                                 [sep |-> in.sep, walk |-> in.walk, score |-> in.score,
                                  corpus |-> in.corpus, pick |-> in.pick,
                                  resp |-> in.resp, clone |-> in.clone])} :
    LET key == CacheKey(in.git_url, in.version, r.default)
        get == \E i \in 1..Len(r.stages) : r.stages[i].get
        api_returned == \E i \in 1..Len(r.stages) :
                            r.stages[i].stage = "api" /\ r.stages[i].out # "raised"
    IN  /\ slf' = [in EXCEPT !.called = TRUE, !.stages = r.stages, !.ret = r.ret]
        /\ cache' = r.cache
        /\ gets' = IF get THEN [gets EXCEPT ![<<in.git_url, in.version>>] = @ + 1] ELSE gets
        /\ recency' = IF api_returned
                      THEN SelectSeq(recency, LAMBDA k : k # key) \o <<key>>
                      ELSE recency

----------------------------------------------------------------------------
(* The Name Resolver on one name *)

\* get_short_license_id(ml.name), which calls match_license(ml.name)
MatchLicenseCall ==
    /\ ~ml.called
    /\ ml' = [ml EXCEPT !.called = TRUE,
                        !.query = LookupName(ml.name),
                        !.exact = OsApiHas(LookupName(ml.name)),
                        !.ret = get_short_license_id(ml.name, ml.pick)]
    /\ UNCHANGED <<glt, cache, gets, recency, api, slf, repo>>

InitName ==
    /\ ml \in {InitMl(name, pick) : name \in Names, pick \in Picks}
    /\ glt = IdleGlt
    /\ slf = IdleSlf
    /\ repo = IdleRepo
    /\ IdleRemote

NextName == MatchLicenseCall

SpecName == InitName /\ [][NextName]_vars

----------------------------------------------------------------------------
(* Direct calls of search_license_api_github *)

MaxFillers == 13
MaxGets == 3

ProbeDefaults == {PyNone, S_MIT}

\* one call search_license_api_github(url, version, default) whose GET, if
\* issued, comes to resp
ApiCall(url, version, default, resp) ==
    LET key == CacheKey(url, version, default)
        r == search_license_api_github(cache, url, version, default, resp)
    IN  /\ cache' = r.cache
        /\ gets' = IF r.get THEN [gets EXCEPT ![<<url, version>>] = @ + 1] ELSE gets
        /\ recency' = IF r.ret.kind = "raised" THEN recency
                      ELSE SelectSeq(recency, LAMBDA k : k # key) \o <<key>>
        /\ api' = [called |-> TRUE, key |-> key, resp |-> resp, get |-> r.get, ret |-> r.ret]

\* a call for the repository under test, with one default or the other
ProbeCall ==
    /\ gets[<<BaseUrl, PyNone>>] < MaxGets
    /\ \E default \in ProbeDefaults, resp \in Resps :
          ApiCall(BaseUrl, PyNone, default, resp)
    /\ UNCHANGED <<ml, glt, slf, repo>>

\* the n-th other pair: another revision of the repository under test, then
\* other repositories
FillerPair(n) == IF n = 1 THEN <<BaseUrl, S_v1>> ELSE <<FillerUrl(n), PyNone>>

FillersUsed == Cardinality({n \in 1..Len(FillerNames) : gets[FillerPair(n)] > 0})

\* a call for another pair, not queried before
FillerCall ==
    /\ FillersUsed < MaxFillers
    /\ ApiCall(FillerPair(FillersUsed + 1)[1], FillerPair(FillersUsed + 1)[2], PyNone, Resp404)
    /\ UNCHANGED <<ml, glt, slf, repo>>

InitCache ==
    /\ ml = IdleMl
    /\ glt = IdleGlt
    /\ slf = IdleSlf
    /\ repo = IdleRepo
    /\ IdleRemote

NextCache == ProbeCall \/ FillerCall

SpecCache == InitCache /\ [][NextCache]_vars

----------------------------------------------------------------------------
(* The Text Classifier on one file *)

GetLicenseTypeCall ==
    /\ ~glt.called
    /\ glt' = [glt EXCEPT !.called = TRUE,
                          !.ret = get_license_type(glt.score, glt.default, glt.corpus)]
    /\ UNCHANGED <<ml, cache, gets, recency, api, slf, repo>>

InitType ==
    /\ glt \in {[called |-> FALSE, score |-> sc, default |-> d, corpus |-> c, ret |-> PyNone] :
                  sc \in Scores, d \in Defaults, c \in Corpora}
    /\ ml = IdleMl
    /\ slf = IdleSlf
    /\ repo = IdleRepo
    /\ IdleRemote

NextType == GetLicenseTypeCall

SpecType == InitType /\ [][NextType]_vars

----------------------------------------------------------------------------
(* search_license_file on a local folder alone *)

SearchLicenseFileLocal ==
    /\ ~slf.called
    /\ SearchLicenseFile(slf)
    /\ UNCHANGED <<ml, glt, api, repo>>

InitScan ==
    /\ slf \in UNION {
          {SlfInputs(sep, folder_path, walk, git_url, PyNone, meta, pick, score, Resp404,
                     CloneFailed("CalledProcessError")) :
              folder_path \in Roots(sep), walk \in Walks(sep), git_url \in {PyNone, <<>>},
              pick \in PicksFor(meta), score \in ScanScores} :
          sep \in Seps, meta \in Metas}
    /\ ml = IdleMl
    /\ glt = IdleGlt
    /\ repo = IdleRepo
    /\ IdleRemote

NextScan == SearchLicenseFileLocal

SpecScan == InitScan /\ [][NextScan]_vars

----------------------------------------------------------------------------
(* Direct calls of search_license_repo *)

SearchLicenseRepoCall ==
    /\ ~repo.called
    /\ LET r == search_license_repo(repo.git_url, repo.version, repo.default, repo.clone,
                                    repo.sep, AllLicenses)
       IN  repo' = [repo EXCEPT !.called = TRUE, !.ret = r.ret, !.cmd = r.cmd,
                                !.scanned = r.scanned]
    /\ UNCHANGED <<ml, glt, cache, gets, recency, api, slf>>

InitRepo ==
    /\ repo \in {[called |-> FALSE, git_url |-> git_url, version |-> version,
                  default |-> default, clone |-> clone, sep |-> sep,
                  ret |-> NoneRet, cmd |-> <<>>, scanned |-> FALSE] :
                    git_url \in RemoteUrls \cup {BaseUrl \o <<".git">> \o <<"/">>},
                    version \in Versions, default \in Defaults, clone \in Clones,
                    sep \in Seps}
    /\ ml = IdleMl
    /\ glt = IdleGlt
    /\ slf = IdleSlf
    /\ IdleRemote

NextRepo == SearchLicenseRepoCall

SpecRepo == InitRepo /\ [][NextRepo]_vars

----------------------------------------------------------------------------
(* Calls of search_license_file in one process *)

OrchUrls == {PyNone, <<>>, BaseUrl}

OrchMetas == {PyNone, <<>>, S_MIT_License}

\* the score matters only when a file is classified
ScoresFor(walk) == IF FirstLicenseFile(walk, 1, 1) = <<0, 0>> THEN {ScoreLow} ELSE ScanScores

\* the stages search_license_file runs on the inputs in
StagesOf(in) ==
    search_license_file(cache, in.folder_path, in.git_url, in.version, in.meta,
                        [sep |-> in.sep, walk |-> in.walk, score |-> in.score,
                         corpus |-> in.corpus, pick |-> in.pick,
                         resp |-> in.resp, clone |-> in.clone]).stages

\* the response matters only when a GET is issued
RespsFor(in) ==
    LET stages == StagesOf(in)
    IN  IF \E i \in 1..Len(stages) : stages[i].get THEN Resps ELSE {in.resp}

\* what git comes to matters only when the clone stage runs
ClonesFor(in) ==
    LET stages == StagesOf(in)
    IN  IF \E i \in 1..Len(stages) : stages[i].stage = "clone"
        THEN Clones ELSE {in.clone}

\* the requests one run of the orchestrator model may issue
MaxRequests == 2

SearchLicenseFileCall ==
    /\ \E git_url \in OrchUrls :
          /\ gets[<<git_url, S_v1>>] < MaxRequests
          /\ \E walk \in {W_empty, W_top}, meta \in OrchMetas :
                \E score \in ScoresFor(walk) :
                   LET in0 == SlfInputs("/", <<"r">>, walk, git_url, S_v1, meta, 1, score,
                                        Resp404, CloneFailed("CalledProcessError"))
                   IN  \E resp \in RespsFor(in0) :
                          \E clone \in ClonesFor([in0 EXCEPT !.resp = resp]) :
                             SearchLicenseFile([in0 EXCEPT !.resp = resp, !.clone = clone])
    /\ UNCHANGED <<ml, glt, api, repo>>

Init ==
    /\ slf = IdleSlf
    /\ ml = IdleMl
    /\ glt = IdleGlt
    /\ repo = IdleRepo
    /\ IdleRemote

Next == SearchLicenseFileCall

Spec == Init /\ [][Next]_vars

----------------------------------------------------------------------------
(* Claims *)

RecentlyReturned(key) ==
    \E i \in 1..Len(recency) : recency[i] = key /\ Len(recency) - i < CacheMaxSize

StageNames == [i \in 1..Len(slf.stages) |-> slf.stages[i].stage]

\* C1: search_license_file runs the local scan, then the host API, then the
\* clone, and stops at the first stage that yields a result; the API is
\* queried only after a scan that found nothing and with a remote URL, the
\* clone only after an API stage that returned none, and without a remote
\* URL a scan that finds nothing ends the call with none, no request made.
C1_StageOrder ==
    slf.called =>
        /\ StageNames \in {<<"folder">>, <<"folder", "api">>, <<"folder", "api", "clone">>}
        /\ Len(slf.stages) >= 2 => slf.stages[1].out = "none" /\ Truthy(slf.git_url)
        /\ Len(slf.stages) >= 3 => slf.stages[2].out = "none"
        /\ \A i \in 1..Len(slf.stages) :
              slf.stages[i].out = "license" =>
                  i = Len(slf.stages) /\ slf.ret.kind = "license"
        /\ (~Truthy(slf.git_url) /\ slf.stages[1].out = "none") =>
              /\ slf.ret = NoneRet
              /\ StageNames = <<"folder">>
              /\ ~slf.stages[1].get

\* the three stages ran in order and the clone found the license
C1_Witness ==
    /\ slf.called
    /\ StageNames = <<"folder", "api", "clone">>
    /\ slf.stages[2].get
    /\ slf.ret.kind = "license"

\* C3: search_license_file never propagates a failure of a remote stage (a
\* transport error or a malformed response of the host API, a status other
\* than 200, a failed clone) to its caller.
C3_NoFailurePropagates == slf.called => slf.ret.kind # "raised"

\* the segments, below the root, of the first license file of the scanned
\* folder in os.walk's order
LicenseFiles(walk) ==
    UNION {{<<i, j>> : j \in {k \in 1..Len(walk[i].files) : ReSearchMatch(walk[i].files[k])}} :
           i \in 1..Len(walk)}

FoundAt(walk) ==
    CHOOSE m \in LicenseFiles(walk) :
        \A n \in LicenseFiles(walk) : m[1] < n[1] \/ (m[1] = n[1] /\ m[2] <= n[2])

FoundSegments(walk) ==
    walk[FoundAt(walk)[1]].dir \o <<walk[FoundAt(walk)[1]].files[FoundAt(walk)[2]]>>

RECURSIVE SplitAll(_, _)
\* the segments of segs, each cut at every c
SplitAll(segs, c) ==
    IF segs = <<>> THEN <<>> ELSE SplitOn(Head(segs), c) \o SplitAll(Tail(segs), c)

\* C4 as stated: the location of a license file found by the local scan is
\* its path relative to rootPath, with forward slashes, without its leading
\* segment.
C4_LeadingSegmentRemoved ==
    (slf.called /\ LicenseFiles(slf.walk) # {}) =>
        slf.ret.path = Join(Tail(FoundSegments(slf.walk)), "/")

\* C4 as amended: the location is the path relative to rootPath with every
\* backslash made a forward slash, and its leading segment is removed only
\* when the path has more than one segment; a file directly in rootPath
\* keeps its name.
C4_LeadingSegmentRemovedIfSeveral ==
    (slf.called /\ LicenseFiles(slf.walk) # {}) =>
        LET segs == SplitAll(FoundSegments(slf.walk), "\\")
        IN  /\ slf.ret.kind = "license"
            /\ slf.ret.path = IF Len(segs) > 1 THEN Join(Tail(segs), "/") ELSE segs[1]

\* a license file directly in rootPath keeps its name as location
C4_Witness ==
    /\ slf.called
    /\ LicenseFiles(slf.walk) # {}
    /\ Len(FoundSegments(slf.walk)) = 1
    /\ slf.ret.path = N_LICENSE_txt

\* C5: a result of search_license_file has is_packaged true exactly when the
\* scan of the local folder found the license file; a result of the host
\* API, fresh or cached, or of the clone has is_packaged false.
C5_PackagedIffLocal ==
    (slf.called /\ slf.ret.kind = "license") =>
        (slf.ret.is_packaged <=> slf.stages[1].out = "license")

\* a result answered from the cache of the host API, not packaged
C5_Witness ==
    /\ slf.called
    /\ StageNames = <<"folder", "api">>
    /\ ~slf.stages[2].get
    /\ slf.ret.kind = "license"
    /\ ~slf.ret.is_packaged

\* C6: every result of search_license_file that is not none has a name that
\* is not None.
C6_NameNeverNone == (slf.called /\ slf.ret.kind = "license") => slf.ret.name # PyNone

\* C7 as stated: get_license_type returns the default whenever one is
\* supplied and the best score is below 76, and otherwise the id of the first
\* corpus entry of the best score.
BestScore == CHOOSE b \in {glt.score[glt.corpus[i][2]] : i \in 1..Len(glt.corpus)} :
                \A i \in 1..Len(glt.corpus) : glt.score[glt.corpus[i][2]] <= b

FirstBest == CHOOSE i \in 1..Len(glt.corpus) :
                /\ glt.score[glt.corpus[i][2]] = BestScore
                /\ \A k \in 1..(i - 1) : glt.score[glt.corpus[k][2]] < BestScore

C7_DefaultBelowThreshold ==
    glt.called =>
        glt.ret = IF glt.default # PyNone /\ BestScore < Threshold
                  THEN glt.default
                  ELSE glt.corpus[FirstBest][1]

\* C7 as amended: get_license_type returns the default whenever a non-empty
\* default is supplied and the best score is below 76; it returns the id of
\* the first corpus entry of the best score when the score is 76 or more,
\* and whenever the default is None or the empty string.
C7_NonEmptyDefaultBelowThreshold ==
    glt.called =>
        glt.ret = IF Truthy(glt.default) /\ BestScore < Threshold
                  THEN glt.default
                  ELSE glt.corpus[FirstBest][1]

\* a default kept at the score just below the threshold
C7_Witness ==
    /\ glt.called
    /\ Truthy(glt.default)
    /\ BestScore = Threshold - 1
    /\ glt.ret = glt.default
    /\ glt.ret # glt.corpus[FirstBest][1]

\* C8: search_license_repo returns none on any failure of the clone command
\* and never propagates the error; the temporary directory is scanned only
\* after a successful clone.
C8_CloneFailureIsNone ==
    repo.called =>
        /\ repo.ret.kind # "raised"
        /\ ~repo.clone.ok => repo.ret = NoneRet /\ ~repo.scanned
        /\ repo.scanned => repo.clone.ok

\* git is missing, and the call returns none
C8_Witness ==
    /\ repo.called
    /\ ~repo.clone.ok /\ repo.clone.exc = "FileNotFoundError"
    /\ repo.ret = NoneRet

\* every text of the corpus scores below the threshold
LowConfidence(score) == \A i \in 1..Len(AllLicenses) : score[AllLicenses[i][2]] < Threshold

\* C9 as stated: a declared license name that is given is resolved to its
\* id, every stage that runs is given that id as default, and a stage whose
\* text match is of low confidence yields it; without a declared name every
\* stage is given no default.
C9_DeclaredIdPassed ==
    slf.called =>
        LET id == IF slf.meta # PyNone THEN get_short_license_id(slf.meta, slf.pick)
                  ELSE PyNone
        IN  \A i \in 1..Len(slf.stages) : slf.stages[i].default = id

\* C9 as amended: a declared license name that is given and not empty is
\* resolved to its id, every stage that runs is given that id as default, and
\* a scan (of the folder or of the clone) whose text match is of low
\* confidence yields it; a declared name that is None or empty is handed to
\* every stage as it is, unresolved.
C9_NonEmptyDeclaredIdPassed ==
    slf.called =>
        LET id == IF Truthy(slf.meta) THEN get_short_license_id(slf.meta, slf.pick)
                  ELSE slf.meta
        IN  /\ \A i \in 1..Len(slf.stages) : slf.stages[i].default = id
            /\ (Truthy(slf.meta) /\ slf.stages[1].out = "license" /\ LowConfidence(slf.score))
                  => slf.ret.name = id
            /\ (Truthy(slf.meta) /\ Len(slf.stages) = 3 /\ slf.stages[3].out = "license"
                  /\ LowConfidence(slf.clone.score))
                  => slf.ret.name = id

\* the clone's license file matches no text well, and the result is named by
\* the declared license
C9_Witness ==
    /\ slf.called
    /\ slf.meta = S_MIT_License
    /\ StageNames = <<"folder", "api", "clone">>
    /\ LowConfidence(slf.clone.score)
    /\ slf.ret.kind = "license"
    /\ slf.ret.name = S_MIT

\* C10: match_license removes every occurrence of the word "License" from
\* the name, whatever its case, with the whitespace around it, before any
\* lookup.
C10_LicenseRemovedAnyCase ==
    ml.called => ml.query = ReSubLicense(Strip(ml.name), 0, RE_IGNORECASE)

====
